---- MODULE Spec2Model ----
(***************************************************************************)
(* Model of the batch source-rewriting scripts of hellshake-yano:          *)
(*   convert_snake_to_camel.py, fix_interface_snake_case.py,               *)
(*   fix_property_usage.py and remove_deleted_functions.py.                *)
(*                                                                         *)
(* A file's text is a sequence of chunks.  A chunk is either one non-word  *)
(* character (" ", "\n", ".", ",", "{", ...) or a run of regex word        *)
(* characters ([A-Za-z0-9_]).  The literals the regular expressions look   *)
(* for are themselves chunk sequences (toUnifiedConfig is <<"to",          *)
(* "UnifiedConfig">>), so that a literal can occur inside a longer run of  *)
(* word characters exactly as a substring can in the Python strings.       *)
(* Every regular expression of the scripts is translated into a matcher    *)
(* (the end of the match that starts at a position, 0 when there is none)  *)
(* and a replacement; re.sub / re.subn is the left-to-right scan ReSub.    *)
(***************************************************************************)
EXTENDS Integers, Sequences, FiniteSets, TLC

VARIABLES tool, mapping, disk, files, pc, idx, total, log, run,
          file_path, original_content, content, returned

vars == <<tool, mapping, disk, files, pc, idx, total, log, run,
          file_path, original_content, content, returned>>

(***************************************************************************)
(* Bounds of the model                                                     *)
(***************************************************************************)
\* how often a script is run on the same files
MaxRuns == 2

\* how many files glob finds at most
MaxFiles == 2

\* how many chunks the enumerated texts without a removed symbol have at most
MaxPlainLen == 3

\* how many symbols the enumerated import lists name at most
MaxImports == 3

\* how many chunks stand around the spelling in the enumerated texts of the renaming
MaxContext == 3

\* the same for the texts that are renamed twice
MaxIdemContext == 2

\* how many entries the enumerated mappings have at most
MaxEntries == 2

(***************************************************************************)
(* Characters                                                              *)
(***************************************************************************)
\* \s of the regular expressions
Space == {" ", "\n"}

\* the chunks that are one character outside \w; every other chunk is a run of \w
NonWord == Space \cup {".", ",", "{", "}", "(", ")", ":", ";", "'", "\"", "?",
                       "*", "/", "$", "=", "-", ">"}

IsWord(c) == c \notin NonWord

\* the element of a set of one element.  Written The({F(v) : v \in {e}}), it computes
\* e once and F of its value (a LET or an argument is computed at each of its uses)
The(S) == CHOOSE x \in S : TRUE

Max(S) == CHOOSE x \in S : \A y \in S : y <= x

Min(S) == CHOOSE x \in S : \A y \in S : x <= y

\* is there a word character just before / at position i of t
WordAt(t, i) == i >= 1 /\ i <= Len(t) /\ IsWord(t[i])

\* the literal lit stands at position i of t
HasLit(t, i, lit) ==
    /\ i >= 1
    /\ i + Len(lit) - 1 <= Len(t)
    /\ \A k \in 1..Len(lit) : t[i + k - 1] = lit[k]

\* \s* (greedy) from position i: the first position at or after i that is not white space
SkipSpace(t, i) ==
    LET stop == {j \in i..Len(t) : t[j] \notin Space}
    IN IF stop = {} THEN Len(t) + 1 ELSE Min(stop)

\* the first position at or after i that holds chunk c, 0 when there is none
FirstAt(t, i, c) ==
    LET at == {j \in i..Len(t) : t[j] = c}
    IN IF at = {} THEN 0 ELSE Min(at)

RECURSIVE Flatten(_)
Flatten(ss) == IF ss = <<>> THEN <<>> ELSE Head(ss) \o Flatten(Tail(ss))

(***************************************************************************)
(* remove_deleted_functions.py: the regular expressions                    *)
(***************************************************************************)
toUnifiedConfig == <<"to", "UnifiedConfig">>

fromUnifiedConfig == <<"from", "UnifiedConfig">>

\* r',?\s*SYMBOL\s*,?' (pattern1, pattern2): the end of the match that starts at i
import_match(sym, t, i) ==
    LET j == IF t[i] = "," THEN i + 1 ELSE i
        k == SkipSpace(t, j)
    IN IF HasLit(t, k, sym)
       THEN LET e == SkipSpace(t, k + Len(sym))
            IN IF e <= Len(t) /\ t[e] = "," THEN e + 1 ELSE e
       ELSE 0

\* lambda m: ',' if m.group().startswith(',') and m.group().endswith(',') else ''
import_repl(t, i, e) ==
    IF t[i] = "," /\ t[e - 1] = "," THEN <<",">> ELSE <<>>

\* the three clean-up expressions: open, white space, close
\*   r',\s*,' -> ','    r'{\s*,' -> '{'    r',\s*}' -> '}'
pair_match(open, close, t, i) ==
    IF t[i] # open THEN 0
    ELSE LET j == SkipSpace(t, i + 1)
         IN IF j <= Len(t) /\ t[j] = close THEN j + 1 ELSE 0

\* r'\bSYMBOL\s*\(' : the position of the opening parenthesis, 0 when no match at i
call_open(sym, t, i) ==
    IF HasLit(t, i, sym) /\ ~WordAt(t, i - 1)
    THEN LET j == SkipSpace(t, i + Len(sym))
         IN IF j <= Len(t) /\ t[j] = "(" THEN j ELSE 0
    ELSE 0

\* r'\bSYMBOL\s*\(\s*([^)]+)\s*\)' : [^)]+ stops at the first ")" and needs one chunk
call_match(sym, t, i) ==
    LET j == call_open(sym, t, i)
        c == IF j = 0 THEN 0 ELSE FirstAt(t, j + 1, ")")
    IN IF j # 0 /\ c > j + 1 THEN c + 1 ELSE 0

\* r'\1': the group starts after the leading white space (which gives one chunk back
\* when nothing else is left) and runs up to the closing parenthesis
call_repl(sym, t, i, e) ==
    LET j == call_open(sym, t, i)
        g == SkipSpace(t, j + 1)
        from == IF g >= e - 1 THEN e - 2 ELSE g
    IN SubSeq(t, from, e - 2)

DenoTest == <<"Deno", ".", "test", "(">>

\* '.*?\{[^}]*?\}\);' from position q: the first "{" whose first "}" is followed by ");"
deno_block_end(t, q) ==
    LET closes(b) == FirstAt(t, b + 1, "}")
        ok == {b \in q..Len(t) :
                 /\ t[b] = "{"
                 /\ closes(b) # 0
                 /\ HasLit(t, closes(b) + 1, <<")", ";">>)}
    IN IF ok = {} THEN 0 ELSE closes(Min(ok)) + 3

\* r'(Deno\.test\(.*SYMBOL.*?\{[^}]*?\}\);)' with re.DOTALL: the greedy .* takes the
\* last occurrence of the symbol after which the rest matches
deno_match(sym, t, i) ==
    IF ~HasLit(t, i, DenoTest) THEN 0
    ELSE LET at == {s \in (i + Len(DenoTest))..Len(t) :
                      HasLit(t, s, sym) /\ deno_block_end(t, s + Len(sym)) # 0}
         IN IF at = {} THEN 0 ELSE deno_block_end(t, Max(at) + Len(sym))

CommentOut == <<"/", "/", " ">>

Annotation == <<" ", "/", "/", " ", "Function", " ", "removed", " ", "in", " ",
                "Process4", " ", "Sub3", "-", "2">>

\* r'// \1 // Function removed in Process4 Sub3-2'
deno_repl(t, i, e) == CommentOut \o SubSeq(t, i, e - 1) \o Annotation

(***************************************************************************)
(* convert_snake_to_camel.py, fix_property_usage.py and                    *)
(* fix_interface_snake_case.py: the regular expressions                    *)
(***************************************************************************)
\* the member pattern without its word boundary: rf'\.{snake_case}'
member_match_unanchored(key, t, i) ==
    IF t[i] = "." /\ HasLit(t, i + 1, key) THEN i + 1 + Len(key) ELSE 0

\* rf'\.{snake_case}\b' (pattern1 of convert_file and of fix_property_usage)
member_match(key, t, i) ==
    IF t[i] = "." /\ HasLit(t, i + 1, key) /\ ~WordAt(t, i + 1 + Len(key))
    THEN i + 1 + Len(key)
    ELSE 0

\* f'.{camel_case}' (replacement1)
member_repl(p) == <<".">> \o p.new

\* rf'\{{\s*{snake_case}\s*:' (pattern2, close = ":") and
\* rf'\{{\s*{snake_case}\s*\}}' (pattern3, close = "}") of convert_file
brace_match(key, close, t, i) ==
    IF t[i] # "{" THEN 0
    ELSE LET j == SkipSpace(t, i + 1)
             e == SkipSpace(t, j + Len(key))
         IN IF HasLit(t, j, key) /\ e <= Len(t) /\ t[e] = close THEN e + 1 ELSE 0

\* f'{{{camel_case}:' (replacement2) and f'{{{camel_case}}}' (replacement3)
brace_repl(new, close) == <<"{">> \o new \o <<close>>

\* rf"'{snake_case}':" (pattern4) and rf'"{snake_case}":' (pattern5) of convert_file
quoted_match(key, quote, t, i) ==
    IF HasLit(t, i, <<quote>> \o key \o <<quote, ":">>) THEN i + Len(key) + 3 ELSE 0

\* the replacement that writes the old spelling back
quoted_repl_old(p) == <<p.quote>> \o p.key \o <<p.quote, ":">>

\* f"'{camel_case}':" (replacement4) and f'"{camel_case}":' (replacement5)
quoted_repl(p) == <<p.quote>> \o p.new \o <<p.quote, ":">>

\* rf"'{snake_case}'\s+in\s+config" (pattern2 of fix_property_usage)
in_check_match(key, t, i) ==
    LET a == i + Len(key) + 2
        b == SkipSpace(t, a)
        c == SkipSpace(t, b + 1)
    IN IF /\ HasLit(t, i, <<"'">> \o key \o <<"'">>)
          /\ b > a /\ HasLit(t, b, <<"in">>)
          /\ c > b + 1 /\ HasLit(t, c, <<"config">>)
       THEN c + 1
       ELSE 0

\* rf"config\.{snake_case}\b" (pattern3 of fix_property_usage)
config_member_match(key, t, i) ==
    IF HasLit(t, i, <<"config", ".">> \o key) /\ ~WordAt(t, i + 2 + Len(key))
    THEN i + 2 + Len(key)
    ELSE 0

\* the second group of both patterns of convert_interface_snake_to_camel,
\* r'(\??:\s*[^;]+;)', from position x: the end of the match, 0 when there is none
decl_tail(t, x) ==
    LET y == IF x <= Len(t) /\ t[x] = "?" THEN x + 1 ELSE x
        z == FirstAt(t, y + 1, ";")
    IN IF y <= Len(t) /\ t[y] = ":" /\ z > y + 1 THEN z + 1 ELSE 0

\* the first group of pattern, r'(\s*\/\*\*[^*]*?\*\/\s*\n\s*)', from position i:
\* the position just after it, 0 when it does not match
doc_comment_end(t, i) ==
    LET j == SkipSpace(t, i)
        s == FirstAt(t, j + 3, "*")
        w == SkipSpace(t, s + 2)
    IN IF /\ HasLit(t, j, <<"/", "*", "*">>)
          /\ s # 0 /\ HasLit(t, s, <<"*", "/">>)
          /\ \E n \in (s + 2)..(w - 1) : t[n] = "\n"
       THEN w
       ELSE 0

\* the first group of pattern2, r'(\s+)', from position i
spaces_end(t, i) == IF t[i] \in Space THEN SkipSpace(t, i) ELSE 0

\* where the property name of a declaration match that starts at i stands
decl_key(doc, t, i) == IF doc THEN doc_comment_end(t, i) ELSE spaces_end(t, i)

\* pattern (doc = TRUE) and pattern2 (doc = FALSE) of convert_interface_snake_to_camel
decl_match(key, doc, t, i) ==
    LET w == decl_key(doc, t, i)
    IN IF w # 0 /\ HasLit(t, w, key) THEN decl_tail(t, w + Len(key)) ELSE 0

\* rf'\1{camel_case}\2'
decl_repl(key, new, doc, t, i, e) ==
    LET w == decl_key(doc, t, i)
    IN SubSeq(t, i, w - 1) \o new \o SubSeq(t, w + Len(key), e - 1)

(***************************************************************************)
(* re.sub, re.subn, re.search                                              *)
(***************************************************************************)
\* the end of the match of pattern p that starts at position i of t, 0 for no match
Match(p, t, i) ==
    CASE p.kind = "import" -> import_match(p.sym, t, i)
      [] p.kind = "pair"   -> pair_match(p.open, p.close, t, i)
      [] p.kind = "call"   -> call_match(p.sym, t, i)
      [] p.kind = "open"   -> (IF call_open(p.sym, t, i) = 0 THEN 0
                               ELSE call_open(p.sym, t, i) + 1)
      [] p.kind = "deno"   -> deno_match(p.sym, t, i)
      [] p.kind = "member" -> member_match(p.key, t, i)
      [] p.kind = "brace"  -> brace_match(p.key, p.close, t, i)
      [] p.kind = "quoted" -> quoted_match(p.key, p.quote, t, i)
      [] p.kind = "in"     -> in_check_match(p.key, t, i)
      [] p.kind = "config" -> config_member_match(p.key, t, i)
      [] p.kind = "decl"   -> decl_match(p.key, p.doc, t, i)

\* what the match of p on t[i..e-1] is replaced by
Repl(p, t, i, e) ==
    CASE p.kind = "import" -> import_repl(t, i, e)
      [] p.kind = "pair"   -> <<p.keep>>
      [] p.kind = "call"   -> call_repl(p.sym, t, i, e)
      [] p.kind = "open"   -> SubSeq(t, i, e - 1)
      [] p.kind = "deno"   -> deno_repl(t, i, e)
      [] p.kind = "member" -> member_repl(p)
      [] p.kind = "brace"  -> brace_repl(p.new, p.close)
      [] p.kind = "quoted" -> quoted_repl(p)
      [] p.kind = "in"     -> <<"'">> \o p.new \o <<"'", " ", "in", " ", "config">>
      [] p.kind = "config" -> <<"config", ".">> \o p.new
      [] p.kind = "decl"   -> decl_repl(p.key, p.new, p.doc, t, i, e)

\* re.sub(p, repl, t): the leftmost match, replaced, then on from its end
RECURSIVE ReSubFrom(_, _, _)
ReSubFrom(p, t, i) ==
    IF i > Len(t) THEN <<>>
    ELSE The({IF e = 0 THEN <<t[i]>> \o ReSubFrom(p, t, i + 1)
              ELSE Repl(p, t, i, e) \o ReSubFrom(p, t, e) : e \in {Match(p, t, i)}})

ReSub(p, t) == The({ReSubFrom(p, v, 1) : v \in {t}})

\* the count re.subn returns
RECURSIVE ReCountFrom(_, _, _)
ReCountFrom(p, t, i) ==
    IF i > Len(t) THEN 0
    ELSE The({IF e = 0 THEN ReCountFrom(p, t, i + 1)
              ELSE 1 + ReCountFrom(p, t, e) : e \in {Match(p, t, i)}})

ReCount(p, t) == The({ReCountFrom(p, v, 1) : v \in {t}})

\* re.search(p, t) finds a match
ReSearch(p, t) == \E v \in {t} : \E i \in 1..Len(v) : Match(p, v, i) # 0

(***************************************************************************)
(* remove_deleted_functions.py: remove_deleted_function_references         *)
(***************************************************************************)
ImportPattern(sym) == [kind |-> "import", sym |-> sym]

CallPattern(sym) == [kind |-> "call", sym |-> sym]

CallOpenPattern(sym) == [kind |-> "open", sym |-> sym]

DenoPattern(sym) == [kind |-> "deno", sym |-> sym]

PairPattern(open, close, keep) ==
    [kind |-> "pair", open |-> open, close |-> close, keep |-> keep]

\* lines 18-19 and 24-25
remove_imports(t) == ReSub(ImportPattern(fromUnifiedConfig), ReSub(ImportPattern(toUnifiedConfig), t))

\* lines 30-32
fix_commas(t) ==
    ReSub(PairPattern(",", "}", "}"),
          ReSub(PairPattern("{", ",", "{"),
                ReSub(PairPattern(",", ",", ","), t)))

\* lines 36 and 41
replace_calls(t) == ReSub(CallPattern(fromUnifiedConfig), ReSub(CallPattern(toUnifiedConfig), t))

\* lines 47-58
comment_out_tests(t) == ReSub(DenoPattern(fromUnifiedConfig), ReSub(DenoPattern(toUnifiedConfig), t))

\* the text remove_deleted_function_references ends with (content at line 61)
prune_content(t) == comment_out_tests(replace_calls(fix_commas(remove_imports(t))))

\* len(modifications): lines 20-21, 26-27, 37-38, 42-43
prune_modifications(t) ==
      (IF ReSub(ImportPattern(toUnifiedConfig), t) # t THEN 1 ELSE 0)
    + (IF remove_imports(t) # t THEN 1 ELSE 0)
    + (IF ReSearch(CallOpenPattern(toUnifiedConfig), t) THEN 1 ELSE 0)
    + (IF ReSearch(CallOpenPattern(fromUnifiedConfig), t) THEN 1 ELSE 0)

(***************************************************************************)
(* convert_snake_to_camel.py: convert_file                                 *)
(***************************************************************************)
MemberPattern(e) == [kind |-> "member", key |-> e.old, new |-> e.new]

BracePattern(e, close) == [kind |-> "brace", key |-> e.old, new |-> e.new, close |-> close]

QuotedPattern(e, quote) == [kind |-> "quoted", key |-> e.old, new |-> e.new, quote |-> quote]

\* the five patterns of one mapping entry, in the order the loop body applies them
convert_patterns(e) ==
    <<MemberPattern(e), BracePattern(e, ":"), BracePattern(e, "}"),
      QuotedPattern(e, "'"), QuotedPattern(e, "\"")>>

\* content, and the count added up, after the first n patterns of the list ps
RECURSIVE SubnAll(_, _, _)
SubnAll(ps, n, st) ==
    IF n = 0 THEN st
    ELSE The({[text  |-> ReSub(ps[n], before.text),
               count |-> before.count + ReCount(ps[n], before.text)] :
                  before \in {SubnAll(ps, n - 1, st)}})

\* the loop of lines 24-53 over the first n entries of the mapping m
RECURSIVE convert_loop(_, _, _)
convert_loop(m, n, t) ==
    IF n = 0 THEN [text |-> t, count |-> 0]
    ELSE SubnAll(convert_patterns(m[n]), 5, convert_loop(m, n - 1, t))

\* content, and converted_count, at line 56
convert_content(m, t) == convert_loop(m, Len(m), t)

(***************************************************************************)
(* fix_property_usage.py: fix_property_usage                               *)
(***************************************************************************)
min_word_length == <<"min", "_word_length">>

max_word_length == <<"max", "_word_length">>

property_mappings ==
    <<[old |-> min_word_length, new |-> <<"minWordLength">>],
      [old |-> max_word_length, new |-> <<"maxWordLength">>],
      [old |-> <<"enable_tinysegmenter">>, new |-> <<"enableTinySegmenter">>]>>

InCheckPattern(e) == [kind |-> "in", key |-> e.old, new |-> e.new]

ConfigMemberPattern(e) == [kind |-> "config", key |-> e.old, new |-> e.new]

property_patterns(e) == <<MemberPattern(e), InCheckPattern(e), ConfigMemberPattern(e)>>

\* content, and len(modifications), after the first n patterns of ps: a pattern adds
\* one modification when it changes the text (new_content != content)
RECURSIVE SubAll(_, _, _)
SubAll(ps, n, st) ==
    IF n = 0 THEN st
    ELSE The({[text  |-> after,
               count |-> before.count + (IF after # before.text THEN 1 ELSE 0)] :
                  <<before, after>> \in
                     {<<b, ReSub(ps[n], b.text)>> : b \in {SubAll(ps, n - 1, st)}}})

RECURSIVE property_loop(_, _)
property_loop(n, t) ==
    IF n = 0 THEN [text |-> t, count |-> 0]
    ELSE SubAll(property_patterns(property_mappings[n]), 3, property_loop(n - 1, t))

property_content(t) == property_loop(Len(property_mappings), t)

(***************************************************************************)
(* fix_interface_snake_case.py: convert_interface_snake_to_camel           *)
(***************************************************************************)
snake_to_camel_map ==
    <<[old |-> <<"use_japanese">>, new |-> <<"useJapanese">>],
      [old |-> <<"use_improved_detection">>, new |-> <<"useImprovedDetection">>],
      [old |-> <<"per_key_min_length">>, new |-> <<"perKeyMinLength">>],
      [old |-> <<"default_">> \o min_word_length, new |-> <<"defaultMinWordLength">>],
      [old |-> <<"current_key_context">>, new |-> <<"currentKeyContext">>],
      [old |-> <<"enable_tinysegmenter">>, new |-> <<"enableTinySegmenter">>],
      [old |-> <<"segmenter_threshold">>, new |-> <<"segmenterThreshold">>],
      [old |-> <<"segmenter_cache_size">>, new |-> <<"segmenterCacheSize">>],
      [old |-> <<"enable_fallback">>, new |-> <<"enableFallback">>],
      [old |-> <<"fallback_to_regex">>, new |-> <<"fallbackToRegex">>],
      [old |-> <<"max_retries">>, new |-> <<"maxRetries">>],
      [old |-> <<"cache_enabled">>, new |-> <<"cacheEnabled">>],
      [old |-> <<"cache_max_size">>, new |-> <<"cacheMaxSize">>],
      [old |-> <<"batch_size">>, new |-> <<"batchSize">>],
      [old |-> min_word_length, new |-> <<"minWordLength">>],
      [old |-> max_word_length, new |-> <<"maxWordLength">>],
      [old |-> <<"ignore_case">>, new |-> <<"ignoreCase">>],
      [old |-> <<"detect_numbers">>, new |-> <<"detectNumbers">>],
      [old |-> <<"detect_symbols">>, new |-> <<"detectSymbols">>],
      [old |-> <<"auto_detect_language">>, new |-> <<"autoDetectLanguage">>],
      [old |-> <<"performance_monitoring">>, new |-> <<"performanceMonitoring">>],
      [old |-> <<"default_strategy">>, new |-> <<"defaultStrategy">>],
      [old |-> <<"fallback_strategy">>, new |-> <<"fallbackStrategy">>],
      [old |-> <<"timeout_ms">>, new |-> <<"timeoutMs">>],
      [old |-> <<"retry_delay_ms">>, new |-> <<"retryDelayMs">>],
      [old |-> <<"enable_async">>, new |-> <<"enableAsync">>]>>

DeclPattern(e, doc) == [kind |-> "decl", key |-> e.old, new |-> e.new, doc |-> doc]

\* one pass of the loop body (lines 49-65): both patterns of the entry e, and one
\* conversion noted for the entry when either of them changed the text
interface_entry(e, st) ==
    The({[text |-> after, count |-> st.count + (IF after # st.text THEN 1 ELSE 0)] :
            after \in {ReSub(DeclPattern(e, FALSE), ReSub(DeclPattern(e, TRUE), st.text))}})

\* the loop of lines 47-65 over the entries lo..hi of snake_to_camel_map, in their
\* order, from the text and the conversions st: the first half, then the second
RECURSIVE interface_loop(_, _, _)
interface_loop(lo, hi, st) ==
    IF lo > hi THEN st
    ELSE IF lo = hi THEN interface_entry(snake_to_camel_map[lo], st)
    ELSE The({interface_loop((lo + hi) \div 2 + 1, hi, before) :
                 before \in {interface_loop(lo, (lo + hi) \div 2, st)}})

interface_content(t) ==
    interface_loop(1, Len(snake_to_camel_map), [text |-> t, count |-> 0])

(***************************************************************************)
(* The drivers: main() of the four scripts                                 *)
(***************************************************************************)
\* target_files of remove_deleted_functions.main
target_files ==
    <<"tests/naming_convention_test.ts",
      "tests/lifecycle_config_migration_test.ts",
      "tests/core_test.ts",
      "tests/conversion_functions_simplification_test.ts",
      "tests/config_conversion_test.ts",
      "tests/conversion_functions_deletion_test.ts">>

\* source_files of fix_interface_snake_case.main
interface_source_files ==
    <<"denops/hellshake-yano/word.ts",
      "denops/hellshake-yano/word/manager.ts">>

\* source_files of fix_property_usage.main
property_source_files ==
    <<"denops/hellshake-yano/word.ts",
      "denops/hellshake-yano/word/manager.ts",
      "denops/hellshake-yano/main.ts">>

\* the paths glob('tests/*.ts') and glob('denops/hellshake-yano/**/*.ts') can find
\* in the model, in the order sorted() gives them
sorted_paths ==
    <<"denops/hellshake-yano/main.ts",
      "denops/hellshake-yano/word.ts",
      "denops/hellshake-yano/word/manager.ts",
      "tests/config_conversion_test.ts",
      "tests/conversion_functions_deletion_test.ts",
      "tests/conversion_functions_simplification_test.ts",
      "tests/core_test.ts",
      "tests/lifecycle_config_migration_test.ts",
      "tests/naming_convention_test.ts">>

Range(q) == {q[k] : k \in 1..Len(q)}

Paths == Range(sorted_paths)

Tools == {"convert", "interface", "property", "prune"}

StaticTools == {"interface", "property", "prune"}

NoFile == [exists |-> FALSE, text |-> <<>>]

File(t) == [exists |-> TRUE, text |-> t]

\* Path(file_path).exists()
Exists(d, p) == d[p].exists

\* sorted(test_files + source_files) of convert_snake_to_camel.main
glob_files(d) == SelectSeq(sorted_paths, LAMBDA p : Exists(d, p))

\* the list of files the loop of main runs over
file_list(tl, d) ==
    CASE tl = "convert"   -> glob_files(d)
      [] tl = "interface" -> interface_source_files
      [] tl = "property"  -> property_source_files
      [] tl = "prune"     -> target_files

\* what the function of the tool makes of a file's text: the new content and the
\* count it has at the comparison with original_content
transform(tl, m, t) ==
    CASE tl = "convert"   -> convert_content(m, t)
      [] tl = "interface" -> interface_content(t)
      [] tl = "property"  -> property_content(t)
      [] tl = "prune"     -> [text |-> prune_content(t), count |-> prune_modifications(t)]

\* a gate that is always open (the comparison dropped)
changed_always(new, original) == TRUE

\* 'if content != original_content:' the gate of the write in all four functions
changed(new, original) == new # original

Event(ev, p) == [ev |-> ev, path |-> p]

\* main up to the loop: load_mapping() and glob (convert), the header lines
main_start ==
    /\ pc = "start"
    /\ files' = file_list(tool, disk)
    /\ idx' = 1
    /\ total' = 0
    /\ log' = <<Event("header", "")>>
    /\ pc' = "loop"
    /\ file_path' = ""
    /\ original_content' = <<>>
    /\ content' = <<>>
    /\ returned' = 0
    /\ UNCHANGED <<tool, mapping, disk, run>>

\* one call of the tool's function on files[idx]: read, transform, write when
\* changed, return the count; and the caller's 'total += ...'
process_file(tl) ==
    /\ pc = "loop"
    /\ tool = tl
    /\ idx <= Len(files)
    /\ tl \in StaticTools => Exists(disk, files[idx])
    /\ \E res \in {transform(tl, mapping, disk[files[idx]].text)} :
       LET p   == files[idx]
           old == disk[p].text
           wr  == changed(res.text, old)
           ret == IF wr THEN res.count ELSE 0
       IN /\ file_path' = p
          /\ original_content' = old
          /\ content' = res.text
          /\ returned' = ret
          /\ disk' = IF wr THEN [disk EXCEPT ![p] = File(res.text)] ELSE disk
          /\ log' = log \o <<Event("read", p)>>
                        \o (IF wr THEN <<Event("write", p)>> ELSE <<>>)
          /\ total' = total + ret
    /\ idx' = idx + 1
    /\ UNCHANGED <<tool, mapping, files, pc, run>>

\* convert_snake_to_camel.main: the loop body (no existence test: the paths are glob's)
main_convert_file == process_file("convert")

\* fix_interface_snake_case.main: the loop body when the path exists
main_convert_interface == process_file("interface")

\* fix_property_usage.main: the loop body when the path exists
main_fix_property_usage == process_file("property")

\* remove_deleted_functions.main: the loop body when the path exists
main_remove_deleted == process_file("prune")

\* the else branch as an error exit: the report, and the run is over
main_file_not_found_abort ==
    /\ pc = "loop"
    /\ tool \in StaticTools
    /\ idx <= Len(files)
    /\ ~Exists(disk, files[idx])
    /\ log' = log \o <<Event("notfound", files[idx]), Event("total", "")>>
    /\ pc' = "done"
    /\ UNCHANGED <<tool, mapping, disk, files, idx, total, run,
                   file_path, original_content, content, returned>>

\* the else branch of the three static-list drivers: print "File not found"
main_file_not_found ==
    /\ pc = "loop"
    /\ tool \in StaticTools
    /\ idx <= Len(files)
    /\ ~Exists(disk, files[idx])
    /\ log' = log \o <<Event("notfound", files[idx])>>
    /\ idx' = idx + 1
    /\ UNCHANGED <<tool, mapping, disk, files, pc, total, run,
                   file_path, original_content, content, returned>>

\* after the loop: the separator and the total line
main_finish ==
    /\ pc = "loop"
    /\ idx > Len(files)
    /\ log' = log \o <<Event("total", "")>>
    /\ pc' = "done"
    /\ UNCHANGED <<tool, mapping, disk, files, idx, total, run,
                   file_path, original_content, content, returned>>

\* the script is started again on the files it left
run_again ==
    /\ pc = "done"
    /\ run < MaxRuns
    /\ run' = run + 1
    /\ pc' = "start"
    /\ UNCHANGED <<tool, mapping, disk, files, idx, total, log,
                   file_path, original_content, content, returned>>

(***************************************************************************)
(* The runs of the four drivers on small file sets                         *)
(***************************************************************************)
\* the content of snake_to_camel_mapping.json in the runs of the drivers
sample_mapping ==
    <<[old |-> min_word_length, new |-> <<"minWordLength">>],
      [old |-> max_word_length, new |-> <<"maxWordLength">>]>>

\* texts a file may hold at the start: for each tool some it rewrites and one it
\* leaves alone
SampleTexts(tl) ==
    CASE tl = "convert" ->
           {<<"config", ".", "min", "_word_length", ";">>,
            <<"{", " ", "max", "_word_length", ":", " ", "3", " ", "}">>,
            <<"config", ".", "minWordLength", ";">>}
      [] tl = "interface" ->
           {<<" ", "use_japanese", "?", ":", " ", "boolean", ";">>,
            <<"/", "*", "*", " ", "doc", " ", "*", "/", "\n", " ", "batch_size", ":",
              " ", "number", ";">>,
            <<" ", "useJapanese", "?", ":", " ", "boolean", ";">>}
      [] tl = "property" ->
           {<<"config", ".", "min", "_word_length", ";">>,
            <<"'", "max", "_word_length", "'", " ", "in", " ", "config">>,
            <<"config", ".", "minWordLength", ";">>}
      [] tl = "prune" ->
           {<<"import", " ", "{", " ", "to", "UnifiedConfig", ",", " ", "otherThing",
              " ", "}", ";">>,
            <<"const", " ", "y", ";">>}

\* the disks on which the paths of P hold a text of T or are missing, and no other
\* path exists
DisksOver(P, T) ==
    {[p \in Paths |-> IF p \in P THEN f[p] ELSE NoFile] :
        f \in [P -> {NoFile} \cup {File(t) : t \in T}]}

\* the disks on which exactly the paths of P exist, with texts of T
DisksWith(P, T) ==
    {[p \in Paths |-> IF p \in P THEN File(f[p]) ELSE NoFile] : f \in [P -> T]}

SampleDisks(tl) ==
    IF tl = "convert"
    THEN UNION {DisksWith(P, SampleTexts(tl)) :
                  P \in {Q \in SUBSET Paths : Cardinality(Q) <= MaxFiles}}
    ELSE DisksOver(Range(file_list(tl, <<>>)), SampleTexts(tl))

\* the state of a script at its start, on disk d
Start(tl, m, d) ==
    /\ tool = tl
    /\ mapping = m
    /\ disk = d
    /\ files = <<>>
    /\ pc = "start"
    /\ idx = 1
    /\ total = 0
    /\ log = <<>>
    /\ run = 1
    /\ file_path = ""
    /\ original_content = <<>>
    /\ content = <<>>
    /\ returned = 0

Init ==
    \E tl \in Tools : \E d \in SampleDisks(tl) :
        Start(tl, IF tl = "convert" THEN sample_mapping ELSE <<>>, d)

\* the steps of one run of a script
MainStep ==
    \/ main_start
    \/ main_convert_file
    \/ main_convert_interface
    \/ main_fix_property_usage
    \/ main_remove_deleted
    \/ main_file_not_found
    \/ main_finish

Next == MainStep \/ run_again

Spec == Init /\ [][Next]_vars

\* the three drivers that run over a static list of paths
InitStatic ==
    \E tl \in StaticTools : \E d \in SampleDisks(tl) : Start(tl, <<>>, d)

StaticStep ==
    \/ main_start
    \/ main_convert_interface
    \/ main_fix_property_usage
    \/ main_remove_deleted
    \/ main_file_not_found
    \/ main_finish

NextStatic == StaticStep \/ run_again

\* a script that was started runs on: it is one sequential process
SpecStatic == InitStatic /\ [][NextStatic]_vars /\ WF_vars(StaticStep)

(***************************************************************************)
(* C1: the write-back gate                                                 *)
(***************************************************************************)
\* the position in the log of the read of the file processed last
LastRead == Max({k \in 1..Len(log) : log[k] = Event("read", file_path)})

\* the call processed last wrote its file
Wrote ==
    LastRead < Len(log) /\ log[LastRead + 1] = Event("write", file_path)

\* C1: after every call of one of the four functions, the file was written if and
\* only if the transformed text differs from the text read; when they are equal the
\* file holds the text read, when they differ it holds exactly the transformed text.
C1_WriteIffChanged ==
    file_path # "" =>
        /\ content = transform(tool, mapping, original_content).text
        /\ Wrote <=> content # original_content
        /\ content = original_content => disk[file_path] = File(original_content)
        /\ content # original_content => disk[file_path] = File(content)

\* both branches of the gate in one log: a file has been written, and the call
\* processed last found nothing to change and wrote nothing
C1_Witness ==
    /\ file_path # ""
    /\ content = original_content
    /\ ~Wrote
    /\ \E k \in 1..Len(log) : log[k].ev = "write"

(***************************************************************************)
(* C8: missing paths in the static-list drivers                            *)
(***************************************************************************)
\* the paths of the read and not-found events of the log, in order
Visited ==
    LET v == SelectSeq(log, LAMBDA e : e.ev \in {"read", "notfound"})
    IN [k \in 1..Len(v) |-> v[k].path]

\* what the log and the loop index of a static-list driver must show
C8_Safety ==
    (tool \in StaticTools /\ pc \in {"loop", "done"}) =>
        /\ Visited = SubSeq(files, 1, idx - 1)
        /\ \A k \in 1..Len(log) :
              /\ log[k].ev \in {"read", "write"} => Exists(disk, log[k].path)
              /\ log[k].ev = "notfound" => ~Exists(disk, log[k].path)
        /\ pc = "done" => (idx = Len(files) + 1 /\ log[Len(log)].ev = "total")

\* C8: in the static-list drivers every listed path is visited exactly once in list
\* order, an existing one by a read and a missing one by a report only (it is never
\* read or written), a run ends only after the last path with the total line, and
\* every started run reaches the total line.
C8_MissingSkipped == []C8_Safety /\ ((pc = "start") ~> (pc = "done"))

\* a run that met a missing path and processed a file after it has finished
C8_Witness ==
    /\ tool \in StaticTools
    /\ pc = "done"
    /\ \E j, k \in 1..Len(log) :
          j < k /\ log[j].ev = "notfound" /\ log[k].ev = "read"

(***************************************************************************)
(* The pruning script on one file: remove_deleted_functions.py             *)
(***************************************************************************)
\* all sequences of at most n elements of S
SeqsUpTo(S, n) == UNION {[1..k -> S] : k \in 0..n}

\* 'const x = toUnifiedConfig(config);' and its like: a call of a removed symbol
\* with an argument free of parentheses
CallText(pre, sym, arg, post) == pre \o sym \o <<"(">> \o arg \o <<")">> \o post

CallPrefixes == {<<"const", " ", "x", " ", "=", " ">>, <<"x", "=">>, <<"return", " ">>}

CallTexts ==
    {CallText(pre, sym, <<"config">>, <<";">>) :
        pre \in CallPrefixes, sym \in {toUnifiedConfig, fromUnifiedConfig}}

\* 'toUnifiedConfig(f(x))'
NestedCallText == toUnifiedConfig \o <<"(", "f", "(", "x", ")", ")">>

\* 'Deno.test("<symbol> works", () => { a(); });'
TestBlock(sym) ==
    DenoTest \o <<"\"">> \o sym \o
    <<" ", "works", "\"", ",", " ", "(", ")", " ", "=", ">", " ", "{", " ", "a",
      "(", ")", ";", " ", "}", ")", ";">>

\* the symbols an import list of the model names
ImportSymbols ==
    {toUnifiedConfig, fromUnifiedConfig, <<"otherThing">>, toUnifiedConfig \o <<"X">>}

Removed == {toUnifiedConfig, fromUnifiedConfig}

\* 's1, s2, s3'
RECURSIVE CommaList(_)
CommaList(names) ==
    IF names = <<>> THEN <<>>
    ELSE IF Len(names) = 1 THEN names[1]
    ELSE names[1] \o <<",", " ">> \o CommaList(Tail(names))

\* 'import { s1, s2 } from "./x";' with or without a comma after the last name
ImportText(names, trailing) ==
    <<"import", " ", "{", " ">> \o CommaList(names)
        \o (IF trailing THEN <<",">> ELSE <<>>)
        \o <<" ", "}", " ", "from", " ", "\"", ".", "/", "x", "\"", ";">>

\* the lists of two to MaxImports different symbols
ImportLists ==
    {names \in SeqsUpTo(ImportSymbols, MaxImports) :
        /\ Len(names) >= 2
        /\ \A j, k \in 1..Len(names) : j # k => names[j] # names[k]}

\* the chunks of the enumerated texts that name no removed symbol
PlainChunks == {",", " ", "{", "}", "a"}

PruneTexts ==
    CallTexts
    \cup {NestedCallText}
    \cup {TestBlock(sym) : sym \in Removed}
    \cup {ImportText(names, tr) : names \in ImportLists, tr \in BOOLEAN}
    \cup SeqsUpTo(PlainChunks, MaxPlainLen)

\* the first of the target files holds one of the texts, the others are missing
InitPrune ==
    \E t \in PruneTexts :
        Start("prune", <<>>, [p \in Paths |-> IF p = target_files[1] THEN File(t) ELSE NoFile])

NextPrune ==
    \/ main_start
    \/ main_remove_deleted
    \/ main_file_not_found
    \/ main_finish
    \/ run_again

SpecPrune == InitPrune /\ [][NextPrune]_vars

\* remove_deleted_function_references has returned in the first run
Pruned == tool = "prune" /\ run = 1 /\ file_path # ""

(***************************************************************************)
(* C3: call-site collapsing                                                *)
(***************************************************************************)
\* C3: a call symbol(argument) of a removed symbol whose argument has no parentheses
\* is replaced by the argument alone and nothing around it changes; in particular
\* 'const x = toUnifiedConfig(config);' yields 'const x = config;'.
C3_CallCollapsed ==
    Pruned =>
        \A pre \in CallPrefixes, sym \in Removed :
            original_content = CallText(pre, sym, <<"config">>, <<";">>)
                => content = pre \o <<"config", ";">>

(***************************************************************************)
(* C4: import pruning                                                      *)
(***************************************************************************)
\* the maximal runs of word characters of t, in order
RECURSIVE WordRunsFrom(_, _)
WordRunsFrom(t, i) ==
    IF i > Len(t) THEN <<>>
    ELSE IF ~IsWord(t[i]) THEN WordRunsFrom(t, i + 1)
    ELSE LET stop == {j \in i..Len(t) : ~IsWord(t[j])}
             e == IF stop = {} THEN Len(t) + 1 ELSE Min(stop)
         IN <<SubSeq(t, i, e - 1)>> \o WordRunsFrom(t, e)

WordRuns(t) == WordRunsFrom(t, 1)

Remaining(names) == SelectSeq(names, LAMBDA n : n \notin Removed)

\* t has no doubled comma, no comma after "{" and none before "}"
CommasClean(t) ==
    /\ ~ReSearch(PairPattern(",", ",", ","), t)
    /\ ~ReSearch(PairPattern("{", ",", "{"), t)
    /\ ~ReSearch(PairPattern(",", "}", "}"), t)

\* C4: an import list that names a removed symbol and at least one other symbol
\* comes out as the list of the remaining symbols in their order, with clean commas;
\* in particular 'import { toUnifiedConfig, otherThing } from "./x";' yields
\* 'import { otherThing } from "./x";'.
C4_ImportPruned ==
    Pruned =>
        /\ \A names \in ImportLists, tr \in BOOLEAN :
              ( /\ original_content = ImportText(names, tr)
                /\ \E k \in 1..Len(names) : names[k] \in Removed
                /\ Remaining(names) # <<>> )
              => /\ WordRuns(content) = WordRuns(ImportText(Remaining(names), FALSE))
                 /\ CommasClean(content)
        /\ original_content = ImportText(<<toUnifiedConfig, <<"otherThing">>>>, FALSE)
              => content = ImportText(<<<<"otherThing">>>>, FALSE)

(***************************************************************************)
(* C5: test-block suppression                                              *)
(***************************************************************************)
\* C5: a Deno.test block whose title names a removed symbol is still there after
\* pruning, its text intact, behind '// ' and followed by the annotation.
C5_TestCommentedOut ==
    Pruned =>
        \A sym \in Removed :
            original_content = TestBlock(sym)
                => content = CommentOut \o TestBlock(sym) \o Annotation

(***************************************************************************)
(* C6: unmatched call sites                                                *)
(***************************************************************************)
\* C6: a call whose argument has nested parentheses, 'toUnifiedConfig(f(x))', is
\* left as it is.
C6_NestedCallUntouched ==
    Pruned => (original_content = NestedCallText => content = NestedCallText)

(***************************************************************************)
(* C10: files that name no removed symbol                                  *)
(***************************************************************************)
Mentions(t, sym) == \E i \in 1..Len(t) : HasLit(t, i, sym)

\* C10: a file whose text has no occurrence of toUnifiedConfig or fromUnifiedConfig
\* is left byte-identical, is not written, and the call returns 0.
C10_NoSymbolNoChange ==
    (Pruned /\ \A sym \in Removed : ~Mentions(original_content, sym)) =>
        /\ content = original_content
        /\ disk[file_path] = File(original_content)
        /\ ~Wrote
        /\ returned = 0

(***************************************************************************)
(* The renaming script on one file: convert_snake_to_camel.py              *)
(***************************************************************************)
\* what may stand before and after a spelling
LeftPieces == {<<".">>, <<"{">>, <<"'">>, <<"\"">>, <<" ">>, <<"x">>}

RightPieces == {<<":">>, <<"}">>, <<"'", ":">>, <<"\"", ":">>, <<" ">>, <<"_x">>, <<"$">>}

\* the texts with the spelling k between at most n pieces of L and R
Around(k, L, R, n) ==
    {Flatten(l) \o k \o Flatten(r) :
        <<l, r>> \in {c \in SeqsUpTo(L, n) \X SeqsUpTo(R, n) : Len(c[1]) + Len(c[2]) <= n}}

\* '{ min_word_length: 3 }'
KeyFixture == <<"{", " ">> \o min_word_length \o <<":", " ", "3", " ", "}">>

\* 'const { min_word_length } = config;'
DestructuringFixture ==
    <<"const", " ", "{", " ">> \o min_word_length \o <<" ", "}", " ", "=", " ", "config", ";">>

RenameTexts ==
    {KeyFixture, DestructuringFixture}
    \cup Around(min_word_length, LeftPieces, RightPieces, MaxContext)
    \cup Around(max_word_length, LeftPieces, RightPieces, MaxContext)

\* glob finds one file
OneFile(t) == [p \in Paths |-> IF p = sorted_paths[1] THEN File(t) ELSE NoFile]

InitRename ==
    \E t \in RenameTexts : Start("convert", sample_mapping, OneFile(t))

NextRename ==
    \/ main_start
    \/ main_convert_file
    \/ main_finish

SpecRename == InitRename /\ [][NextRename]_vars

\* convert_file has returned in the first run
Converted == tool = "convert" /\ run = 1 /\ file_path # ""

(***************************************************************************)
(* C7: the brace forms                                                     *)
(***************************************************************************)
\* C7: with {min_word_length -> minWordLength} the brace forms replace the identifier
\* only and keep the white space: '{ min_word_length: 3 }' yields
\* '{ minWordLength: 3 }' and 'const { min_word_length } = config;' yields
\* 'const { minWordLength } = config;'.
C7_BraceFormsKeepSpace ==
    Converted =>
        /\ original_content = KeyFixture
              => content = <<"{", " ", "minWordLength", ":", " ", "3", " ", "}">>
        /\ original_content = DestructuringFixture
              => content = <<"const", " ", "{", " ", "minWordLength", " ", "}", " ",
                             "=", " ", "config", ";">>

(***************************************************************************)
(* C9: whole identifiers only                                              *)
(***************************************************************************)
\* the positions of t where a key of the mapping m stands
Occurrences(m, t) ==
    {<<k, i>> \in (1..Len(m)) \X (1..Len(t)) : HasLit(t, i, m[k].old)}

\* the character classes an identifier can be made of
IsIdentifierChar(c) == IsWord(c) \/ c = "$"

\* every key of m stands in t only as a part of a longer run of characters of the
\* class Is, and does stand in it
OnlyEmbedded(m, t, Is(_)) ==
    /\ Occurrences(m, t) # {}
    /\ \A o \in Occurrences(m, t) :
          LET i == o[2]
              e == i + Len(m[o[1]].old)
          IN \/ (i > 1 /\ Is(t[i - 1]))
             \/ (e <= Len(t) /\ Is(t[e]))

\* C9 as stated: a text in which the old spellings stand only inside longer
\* identifiers ('$' being a character of identifiers) is left unchanged and counted
\* as zero occurrences.
C9_WholeIdentifierOnly ==
    (Converted /\ OnlyEmbedded(mapping, original_content, IsIdentifierChar)) =>
        /\ content = original_content
        /\ convert_content(mapping, original_content).count = 0

\* C9, amended: a text in which the old spellings stand only inside longer runs of
\* word characters (letters, digits, '_') is left unchanged and counted as zero
\* occurrences, for every pattern class and every mapping entry.
C9_WholeWordOnly ==
    (Converted /\ OnlyEmbedded(mapping, original_content, IsWord)) =>
        /\ content = original_content
        /\ disk[file_path] = File(original_content)
        /\ convert_content(mapping, original_content).count = 0

\* '.min_word_length_x' went through convert_file and is still there
C9_Witness ==
    /\ Converted
    /\ original_content = <<".">> \o min_word_length \o <<"_x">>
    /\ content = original_content

(***************************************************************************)
(* C2: renaming twice                                                      *)
(***************************************************************************)
IdemLeft == {<<".">>, <<"{">>, <<"'">>, <<" ">>}

IdemRight == {<<":">>, <<"}">>, <<"'", ":">>, <<" ">>}

IdemTexts ==
    {KeyFixture, DestructuringFixture}
    \cup Around(min_word_length, IdemLeft, IdemRight, MaxIdemContext)
    \cup Around(max_word_length, IdemLeft, IdemRight, MaxIdemContext)

OldSpellings == {min_word_length, max_word_length}

NewSpellings == {<<"minWordLength">>, max_word_length}

\* the mappings of at most MaxEntries entries: the keys of a JSON object are unique
Mappings ==
    {m \in SeqsUpTo([old : OldSpellings, new : NewSpellings], MaxEntries) :
        /\ m # <<>>
        /\ \A j, k \in 1..Len(m) : j # k => m[j].old # m[k].old}

InitIdem ==
    \E t \in IdemTexts : \E m \in Mappings : Start("convert", m, OneFile(t))

NextIdem ==
    \/ main_start
    \/ main_convert_file
    \/ main_finish
    \/ run_again

SpecIdem == InitIdem /\ [][NextIdem]_vars

\* convert_file has returned in a later run: the text it read is the one the run
\* before left
ConvertedAgain == tool = "convert" /\ run > 1 /\ pc # "start" /\ file_path # ""

SecondPassIdle ==
    /\ content = original_content
    /\ convert_content(mapping, original_content).count = 0

\* C2 as stated: for any mapping with unique keys, the second pass leaves the text as
\* it is and counts no occurrence.
C2_Idempotent == ConvertedAgain => SecondPassIdle

\* no new spelling of m is one of its old spellings
Forward(m) == \A j, k \in 1..Len(m) : m[j].new # m[k].old

\* C2, amended: for a mapping none of whose new spellings is one of its old
\* spellings, the second pass leaves the text as it is and counts no occurrence.
C2_IdempotentForward == (ConvertedAgain /\ Forward(mapping)) => SecondPassIdle

\* a second pass over a text the first pass rewrote
C2_Witness ==
    /\ ConvertedAgain
    /\ Forward(mapping)
    /\ Len(mapping) = 2
    /\ "minWordLength" \in Range(original_content)
    /\ content = original_content

====
